---------------------------- MODULE Spec2Model ----------------------------
(***************************************************************************)
(* The text-buffer wrapper of src/src/text.rs (TextBuffer and its Clone,   *)
(* Send and Sync impls) over the native buffer Fl_Text_Buffer.             *)
(*                                                                         *)
(* A Rust &str is modelled as the sequence of its UTF-8 bytes, a native    *)
(* buffer as the sequence of bytes it stores.  The wrapper methods are     *)
(* operators that take the native store their _inner points to and return  *)
(* an outcome  [b, calls, ret]:  the store afterwards, the closure calls    *)
(* made while the method ran, and the method's return value.               *)
(***************************************************************************)
EXTENDS Integers, Sequences, FiniteSets, TLC

VARIABLES
    heap,           \* the native stores: pointer -> [st, frees, b]
    bufs,           \* the TextBuffer values: handle -> [st, inner, owner]
    boxes,          \* the Boxes made by Box::into_raw: address -> closure
    registered,     \* the closures the program added and has not removed since
    last,           \* the last call made: [op, args, pre, ret, calls]
    prev,           \* the call before it, kept when the two are a tracked pair
    inflight,       \* thread -> the handle a call of it is inside of, or 0
    undo_enabled,   \* what the program last passed to can_undo
    debug_build,    \* whether debug_assert! is compiled in
    cap,            \* the content length the run stays within
    terse           \* whether last keeps only the name and the result of a call

vars == <<heap, bufs, boxes, registered, last, prev, inflight, undo_enabled,
          debug_build, cap, terse>>

---------------------------------------------------------------------------
(* Bounds of the model *)

\* longest content a native buffer grows to
MaxLen == 3
\* longest content where listeners or ranges are part of the state
MaxShort == 2
\* longest content where a returned text is written back, which can grow it
MaxLong == 4
\* native stores that can be allocated
MaxBufs == 2
\* TextBuffer values (handles) the program creates
MaxHandles == 3
\* Box allocations made by add_/remove_modify_callback
MaxBoxes == 3

---------------------------------------------------------------------------
(* Bytes and strings *)

\* "a" is an ASCII byte; C3 A9 is the two-byte encoding of one character;
\* EF BF BD is U+FFFD, the replacement character; 00 is the NUL byte.
NUL == "00"
Cont == {"A9", "BF", "BD"}
Lead2 == {"C3"}
Lead3 == {"EF"}
Ascii == {"a"}
FFFD == <<"EF", "BF", "BD">>

\* the &str values the program passes in (all valid UTF-8)
Strs == {<<>>, <<"a">>, <<"C3", "A9">>, <<NUL>>}

Min(x, y) == IF x <= y THEN x ELSE y
Max(x, y) == IF x >= y THEN x ELSE y

Slice(s, from, to) == SubSeq(s, from + 1, to)

\* number of characters (not bytes) of a valid UTF-8 string
RECURSIVE chars_count(_)
chars_count(s) ==
    IF s = <<>> THEN 0
    ELSE IF s[1] \in Lead2 THEN 1 + chars_count(SubSeq(s, 3, Len(s)))
    ELSE IF s[1] \in Lead3 THEN 1 + chars_count(SubSeq(s, 4, Len(s)))
    ELSE 1 + chars_count(Tail(s))

\* String::from_utf8_lossy: every maximal ill-formed byte run part becomes U+FFFD
RECURSIVE to_string_lossy(_)
to_string_lossy(s) ==
    IF s = <<>> THEN <<>>
    ELSE IF s[1] \in Ascii \cup {NUL}
         THEN <<s[1]>> \o to_string_lossy(Tail(s))
    ELSE IF s[1] \in Lead2 /\ Len(s) >= 2 /\ s[2] \in Cont
         THEN <<s[1], s[2]>> \o to_string_lossy(SubSeq(s, 3, Len(s)))
    ELSE IF s[1] \in Lead3 /\ Len(s) >= 3 /\ s[2] \in Cont /\ s[3] \in Cont
         THEN <<s[1], s[2], s[3]>> \o to_string_lossy(SubSeq(s, 4, Len(s)))
    ELSE IF s[1] \in Lead3 /\ Len(s) >= 2 /\ s[2] \in Cont
         THEN FFFD \o to_string_lossy(SubSeq(s, 3, Len(s)))
    ELSE FFFD \o to_string_lossy(Tail(s))

\* CString::new(txt) is an Err when txt has an interior NUL byte
HasNul(s) == \E i \in 1..Len(s) : s[i] = NUL

\* CStr::from_ptr(p): the bytes up to the first NUL
RECURSIVE CStr_from_ptr(_)
CStr_from_ptr(s) ==
    IF s = <<>> \/ s[1] = NUL THEN <<>> ELSE <<s[1]>> \o CStr_from_ptr(Tail(s))

\* std::i32::MAX.  TLC's integers are 32 bits wide and cannot hold a u32
\* beyond std::i32::MAX, so the model's machine words are 16 bits wide: its
\* i32 ranges over -2^15 .. 2^15 - 1 and its u32 over 0 .. 2^16 - 1.
I32_MAX == 32767

\* `x as i32` of a u32 and `x as u32` of a c_int: two's complement
as_i32(x) == IF x > I32_MAX THEN x - 2 * (I32_MAX + 1) ELSE x
as_u32(x) == IF x < 0 THEN x + 2 * (I32_MAX + 1) ELSE x

---------------------------------------------------------------------------
(* The native buffer, Fl_Text_Buffer.  A C pointer is <<>> when null and   *)
(* <<x>> when it points to x.                                              *)

NULL == <<>>
PtrTo(x) == <<x>>

NoRange == [mSelected |-> FALSE, mStart |-> 0, mEnd |-> 0]

Fl_Text_Buffer_new ==
    [mBuf |-> <<>>, mPrimary |-> NoRange, mHighlight |-> NoRange,
     mCanUndo |-> FALSE, mUndo |-> <<>>, mProcs |-> <<>>, mTabDist |-> 8]

Clamp(p, len) == Max(0, Min(p, len))

\* where position p lands when [s, e) is removed, and when n bytes go in at pos
AfterRemove(p, s, e) == IF p <= s THEN p ELSE IF p < e THEN s ELSE p - (e - s)

update_selection(r, s, e, n) ==
    IF ~r.mSelected THEN r
    ELSE LET st == AfterRemove(r.mStart, s, e)
             en == AfterRemove(r.mEnd, s, e)
         IN  [mSelected |-> TRUE,
              mStart |-> IF st >= s THEN st + n ELSE st,
              mEnd |-> IF st >= s \/ en > s THEN en + n ELSE en]

\* one native callback invocation per registered procedure, in the order registered
native_call_modify_callbacks(b, pos, nInserted, nDeleted, nRestyled, deletedText) ==
    [i \in 1..Len(b.mProcs) |->
        [cb |-> b.mProcs[i].cb, pos |-> pos, nInserted |-> nInserted,
         nDeleted |-> nDeleted, nRestyled |-> nRestyled,
         deletedText |-> deletedText, arg |-> b.mProcs[i].arg]]

\* the one primitive behind every content change: [start, end) becomes txt
native_replace(b, start0, end0, txt) ==
    LET len == Len(b.mBuf)
        s == Clamp(Min(start0, end0), len)
        e == Clamp(Max(start0, end0), len)
        deleted == Slice(b.mBuf, s, e)
        nb == [b EXCEPT
                 !.mBuf = Slice(b.mBuf, 0, s) \o txt \o Slice(b.mBuf, e, len),
                 !.mPrimary = update_selection(b.mPrimary, s, e, Len(txt)),
                 !.mHighlight = update_selection(b.mHighlight, s, e, Len(txt)),
                 !.mUndo = IF b.mCanUndo THEN <<b.mBuf>> ELSE b.mUndo]
    IN  [b |-> nb,
         inv |-> native_call_modify_callbacks(nb, s, Len(txt), e - s, 0, PtrTo(deleted)),
         ret |-> 0]

Fl_Text_Buffer_set_text(b, txt) == native_replace(b, 0, Len(b.mBuf), txt)
Fl_Text_Buffer_text(b) == PtrTo(b.mBuf)
Fl_Text_Buffer_append(b, txt) == native_replace(b, Len(b.mBuf), Len(b.mBuf), txt)
Fl_Text_Buffer_length(b) == Len(b.mBuf)
Fl_Text_Buffer_remove(b, start, end) == native_replace(b, start, end, <<>>)
Fl_Text_Buffer_insert(b, pos, txt) == native_replace(b, pos, pos, txt)
Fl_Text_Buffer_replace(b, start, end, txt) == native_replace(b, start, end, txt)

Fl_Text_Buffer_text_range(b, start, end) ==
    LET len == Len(b.mBuf)
    IN  PtrTo(Slice(b.mBuf, Clamp(Min(start, end), len), Clamp(Max(start, end), len)))

Fl_Text_Buffer_copy(b, src, start, end, to) ==
    LET len == Len(src.mBuf)
        txt == Slice(src.mBuf, Clamp(Min(start, end), len), Clamp(Max(start, end), len))
    IN  native_replace(b, to, to, txt)

\* 0 when undo is off or nothing is recorded; else the content before the
\* last change is put back and 1 returned
Fl_Text_Buffer_undo(b, cp) ==
    IF ~b.mCanUndo \/ b.mUndo = <<>>
    THEN [b |-> b, inv |-> <<>>, ret |-> 0]
    ELSE LET r == native_replace(b, 0, Len(b.mBuf), b.mUndo[1])
         IN  [b |-> [r.b EXCEPT !.mUndo = <<>>], inv |-> r.inv, ret |-> 1]

Fl_Text_Buffer_canUndo(b, flag) ==
    [b |-> [b EXCEPT !.mCanUndo = (flag # 0),
                     !.mUndo = IF flag # 0 THEN b.mUndo ELSE <<>>],
     inv |-> <<>>, ret |-> 0]

Fl_Text_Buffer_select(b, start, end) ==
    [b |-> [b EXCEPT !.mPrimary =
                [mSelected |-> TRUE, mStart |-> Min(start, end), mEnd |-> Max(start, end)]],
     inv |-> <<>>, ret |-> 0]

Fl_Text_Buffer_selected(b) == IF b.mPrimary.mSelected THEN 1 ELSE 0

Fl_Text_Buffer_unselect(b) ==
    [b |-> [b EXCEPT !.mPrimary = NoRange], inv |-> <<>>, ret |-> 0]

\* writes the range through start and end and returns 1 when there is a
\* selection, returns 0 without writing when there is none; "deref" says
\* whether the two out-pointers were written through
Fl_Text_Buffer_selection_position(b, start, end) ==
    IF b.mPrimary.mSelected
    THEN [ret |-> 1, deref |-> TRUE, start |-> b.mPrimary.mStart, end |-> b.mPrimary.mEnd]
    ELSE [ret |-> 0, deref |-> FALSE, start |-> 0, end |-> 0]

Fl_Text_Buffer_highlight(b, start, end) ==
    [b |-> [b EXCEPT !.mHighlight =
                [mSelected |-> TRUE, mStart |-> Min(start, end), mEnd |-> Max(start, end)]],
     inv |-> <<>>, ret |-> 0]

Fl_Text_Buffer_is_highlighted(b) == IF b.mHighlight.mSelected THEN 1 ELSE 0

Fl_Text_Buffer_unhighlight(b) ==
    [b |-> [b EXCEPT !.mHighlight = NoRange], inv |-> <<>>, ret |-> 0]

Fl_Text_Buffer_highlight_position(b, start, end) ==
    IF b.mHighlight.mSelected
    THEN [ret |-> 1, deref |-> TRUE, start |-> b.mHighlight.mStart, end |-> b.mHighlight.mEnd]
    ELSE [ret |-> 0, deref |-> FALSE, start |-> 0, end |-> 0]

Fl_Text_Buffer_set_tab_distance(b, tabDist) ==
    [b |-> [b EXCEPT !.mTabDist = tabDist], inv |-> <<>>, ret |-> 0]

\* Lines end with the newline byte; a word is a run of bytes that are
\* neither a newline nor NUL.
Newline == "0A"
IsWordByte(c) == c \notin {Newline, NUL}

\* where the line that holds position pos starts and ends
LineStart(buf, pos) ==
    LET p == Clamp(pos, Len(buf))
        c == {i \in 0..p : i = 0 \/ buf[i] = Newline}
    IN  CHOOSE i \in c : \A j \in c : j <= i

LineEnd(buf, pos) ==
    LET p == Clamp(pos, Len(buf))
        c == {i \in p..Len(buf) : i = Len(buf) \/ buf[i + 1] = Newline}
    IN  CHOOSE i \in c : \A j \in c : i <= j

Fl_Text_Buffer_line_text(b, pos) ==
    PtrTo(Slice(b.mBuf, LineStart(b.mBuf, pos), LineEnd(b.mBuf, pos)))

Fl_Text_Buffer_line_start(b, pos) == LineStart(b.mBuf, pos)

\* the start and the end of the run of word bytes around position pos
Fl_Text_Buffer_word_start(b, pos) ==
    LET p == Clamp(pos, Len(b.mBuf))
        c == {i \in 0..p : \A k \in (i + 1)..p : IsWordByte(b.mBuf[k])}
    IN  CHOOSE i \in c : \A j \in c : i <= j

Fl_Text_Buffer_word_end(b, pos) ==
    LET p == Clamp(pos, Len(b.mBuf))
        c == {i \in p..Len(b.mBuf) : \A k \in (p + 1)..i : IsWordByte(b.mBuf[k])}
    IN  CHOOSE i \in c : \A j \in c : j <= i

\* the number of newline bytes in [start, end)
Fl_Text_Buffer_count_lines(b, start, end) ==
    LET len == Len(b.mBuf)
    IN  Cardinality({i \in (Clamp(Min(start, end), len) + 1)..Clamp(Max(start, end), len) :
                        b.mBuf[i] = Newline})

\* The files of the model: a path names a file that is there or not, one
\* the native loader can read or not, with the bytes it holds.
Paths == {"missing", "unreadable", "latin1", "notes.txt", "empty.txt"}
path_exists(path) == path # "missing"
\* Path::to_str is None for a name that is not valid UTF-8
path_to_str_is_some(path) == path # "latin1"
FileData(path) == IF path = "notes.txt" THEN <<"a", "C3", "A9">> ELSE <<>>

\* the content becomes the file's and 1 is returned, or 0 when the load fails
Fl_Text_Buffer_loadfile(b, path, buflen) ==
    IF path \in {"notes.txt", "empty.txt"}
    THEN [native_replace(b, 0, Len(b.mBuf), FileData(path)) EXCEPT !.ret = 1]
    ELSE [b |-> b, inv |-> <<>>, ret |-> 0]

Fl_Text_Buffer_add_modify_callback(b, cb, arg) ==
    [b |-> [b EXCEPT !.mProcs = Append(b.mProcs, [cb |-> cb, arg |-> arg])],
     inv |-> <<>>, ret |-> 0]

\* the registered procedure with this function and this argument is taken
\* out; nothing happens when there is none
Fl_Text_Buffer_remove_modify_callback(b, cb, arg) ==
    LET hits == {i \in 1..Len(b.mProcs) : b.mProcs[i] = [cb |-> cb, arg |-> arg]}
    IN  IF hits = {} THEN [b |-> b, inv |-> <<>>, ret |-> 0]
        ELSE LET k == CHOOSE i \in hits : \A j \in hits : i <= j
             IN  [b |-> [b EXCEPT !.mProcs =
                            SubSeq(b.mProcs, 1, k - 1) \o SubSeq(b.mProcs, k + 1, Len(b.mProcs))],
                  inv |-> <<>>, ret |-> 0]

Fl_Text_Buffer_call_modify_callbacks(b) ==
    [b |-> b, inv |-> native_call_modify_callbacks(b, 0, 0, 0, 0, NULL), ret |-> 0]

---------------------------------------------------------------------------
(* impl TextBuffer: the wrapper methods.  b is the native store that       *)
(* self._inner points to.                                                  *)

\* a failed assert!, debug_assert! or unwrap(): the call unwinds before the
\* native function is reached
Panic(b) == [b |-> b, calls |-> <<>>, ret |-> <<"panic">>]

\* the debug_assert! that lets the first value past std::i32::MAX through
debug_assert_off_by_one(x) == debug_build /\ ~(x <= I32_MAX + 1)

\* debug_assert!(x <= std::i32::MAX as u32, ...) fails
debug_assert_fails(x) == debug_build /\ ~(x <= I32_MAX)

\* the shim with the inserted and deleted counts taken for each other
shim_counts_swapped(pos, inserted, deleted, restyled, deleted_text, data) ==
    [closure |-> boxes[data],
     pos |-> as_u32(pos), inserted |-> as_u32(deleted),
     deleted |-> as_u32(inserted), restyled |-> as_u32(restyled),
     text |-> IF deleted_text # NULL
              THEN to_string_lossy(CStr_from_ptr(deleted_text[1]))
              ELSE <<>>]

\* the extern "C" fn shim of add_modify_callback: what the boxed closure
\* behind data is called with
shim(pos, inserted, deleted, restyled, deleted_text, data) ==
    [closure |-> boxes[data],
     pos |-> as_u32(pos), inserted |-> as_u32(inserted),
     deleted |-> as_u32(deleted), restyled |-> as_u32(restyled),
     text |-> IF deleted_text # NULL
              THEN to_string_lossy(CStr_from_ptr(deleted_text[1]))
              ELSE <<>>]

\* a native call that returns nothing: the callbacks it made ran the shim
Forward(n) ==
    [b |-> n.b,
     calls |-> [i \in 1..Len(n.inv) |->
                  shim(n.inv[i].pos, n.inv[i].nInserted, n.inv[i].nDeleted,
                       n.inv[i].nRestyled, n.inv[i].deletedText, n.inv[i].arg)],
     ret |-> <<"unit">>]

set_text(b, txt) ==
    IF HasNul(txt) THEN Panic(b)
    ELSE Forward(Fl_Text_Buffer_set_text(b, txt))

text(b) ==
    LET p == Fl_Text_Buffer_text(b)
    IN  IF p = NULL THEN <<"panic">>
        ELSE <<"String", to_string_lossy(CStr_from_ptr(p[1]))>>

append(b, txt) ==
    IF HasNul(txt) THEN Panic(b)
    ELSE Forward(Fl_Text_Buffer_append(b, txt))

length(b) == as_u32(Fl_Text_Buffer_length(b))

remove(b, start, end) ==
    IF debug_assert_fails(start) \/ debug_assert_fails(end) THEN Panic(b)
    ELSE Forward(Fl_Text_Buffer_remove(b, as_i32(start), as_i32(end)))

text_range(b, start, end) ==
    IF debug_assert_fails(start) \/ debug_assert_fails(end) THEN <<"panic">>
    ELSE LET x == Fl_Text_Buffer_text_range(b, as_i32(start), as_i32(end))
         IN  IF x = NULL THEN <<"None">>
             ELSE <<"Some", to_string_lossy(CStr_from_ptr(x[1]))>>

\* insert that forwards the position after pos
insert_off_by_one(b, pos, txt) ==
    IF debug_assert_fails(pos) \/ HasNul(txt) THEN Panic(b)
    ELSE Forward(Fl_Text_Buffer_insert(b, as_i32(pos) + 1, txt))

insert(b, pos, txt) ==
    IF debug_assert_fails(pos) \/ HasNul(txt) THEN Panic(b)
    ELSE Forward(Fl_Text_Buffer_insert(b, as_i32(pos), txt))

\* replace that forwards start as the end of the range as well
replace_inserts_only(b, start, end, txt) ==
    IF debug_assert_fails(start) \/ debug_assert_fails(end) \/ HasNul(txt) THEN Panic(b)
    ELSE Forward(Fl_Text_Buffer_replace(b, as_i32(start), as_i32(start), txt))

replace(b, start, end, txt) ==
    IF debug_assert_fails(start) \/ debug_assert_fails(end) \/ HasNul(txt) THEN Panic(b)
    ELSE Forward(Fl_Text_Buffer_replace(b, as_i32(start), as_i32(end), txt))

copy(b, source_buf, start, end, to) ==
    IF debug_assert_fails(start) \/ debug_assert_fails(end) \/ debug_assert_fails(to)
    THEN Panic(b)
    ELSE Forward(Fl_Text_Buffer_copy(b, source_buf, as_i32(start), as_i32(end), as_i32(to)))

\* undo that takes every return value of the native call for success
undo_never_fails(b) ==
    [Forward(Fl_Text_Buffer_undo(b, NULL)) EXCEPT !.ret = <<"Ok">>]

undo(b) ==
    LET n == Fl_Text_Buffer_undo(b, NULL)
    IN  [Forward(n) EXCEPT
           !.ret = IF n.ret = 0 THEN <<"Err", "Unknown", "Failed to undo">>
                   ELSE <<"Ok">>]

\* can_undo that forwards the flag negated
can_undo_negated(b, flag) ==
    Forward(Fl_Text_Buffer_canUndo(b, IF flag THEN 0 ELSE 1))

can_undo(b, flag) ==
    Forward(Fl_Text_Buffer_canUndo(b, IF flag THEN 1 ELSE 0))

\* load_file that reads the native return value the other way round
load_file_inverted(b, path) ==
    IF ~path_exists(path)
    THEN [b |-> b, calls |-> <<>>, ret |-> <<"Err", "Internal", "ResourceNotFound">>]
    ELSE IF ~path_to_str_is_some(path) THEN Panic(b)
    ELSE LET n == Fl_Text_Buffer_loadfile(b, path, 0)
         IN  [Forward(n) EXCEPT
                !.ret = IF n.ret = 0 THEN <<"Ok">>
                        ELSE <<"Err", "Internal", "ResourceNotFound">>]

load_file(b, path) ==
    IF ~path_exists(path)
    THEN [b |-> b, calls |-> <<>>, ret |-> <<"Err", "Internal", "ResourceNotFound">>]
    ELSE IF ~path_to_str_is_some(path) THEN Panic(b)
    ELSE LET n == Fl_Text_Buffer_loadfile(b, path, 0)
         IN  [Forward(n) EXCEPT
                !.ret = IF n.ret = 0 THEN <<"Err", "Internal", "ResourceNotFound">>
                        ELSE <<"Ok">>]

\* select that forwards the position after end
select_past_end(b, start, end) ==
    IF debug_assert_fails(start) \/ debug_assert_fails(end) THEN Panic(b)
    ELSE Forward(Fl_Text_Buffer_select(b, as_i32(start), as_i32(end) + 1))

select(b, start, end) ==
    IF debug_assert_fails(start) \/ debug_assert_fails(end) THEN Panic(b)
    ELSE Forward(Fl_Text_Buffer_select(b, as_i32(start), as_i32(end)))

selected(b) == Fl_Text_Buffer_selected(b) # 0

unselect(b) == Forward(Fl_Text_Buffer_unselect(b))

\* What a read or write through a null pointer can end in: the process is
\* killed, or the call goes on with whatever value the build produces.
NullDeref ==
    {<<"crash">>, <<"None">>} \cup {<<"Some", x, y>> : x \in 0..1, y \in 0..1}

\* start and end are null pointers: with a selection the native function
\* writes through them and the wrapper reads *start and *end.  The set of
\* results the call can have.
selection_position(b) ==
    LET n == Fl_Text_Buffer_selection_position(b, NULL, NULL)
    IN  IF n.deref THEN NullDeref
        ELSE IF n.ret # 0 THEN NullDeref
        ELSE {<<"None">>}

\* highlight that calls the native select
highlight_sets_selection(b, start, end) ==
    IF debug_assert_fails(start) \/ debug_assert_fails(end) THEN Panic(b)
    ELSE Forward(Fl_Text_Buffer_select(b, as_i32(start), as_i32(end)))

highlight(b, start, end) ==
    IF debug_assert_fails(start) \/ debug_assert_fails(end) THEN Panic(b)
    ELSE Forward(Fl_Text_Buffer_highlight(b, as_i32(start), as_i32(end)))

is_highlighted(b) == Fl_Text_Buffer_is_highlighted(b) # 0

unhighlight(b) == Forward(Fl_Text_Buffer_unhighlight(b))

highlight_position(b) ==
    LET n == Fl_Text_Buffer_highlight_position(b, NULL, NULL)
    IN  IF n.deref THEN NullDeref
        ELSE IF n.ret # 0 THEN NullDeref
        ELSE {<<"None">>}

set_tab_distance(b, tab_dist) ==
    IF debug_assert_fails(tab_dist) THEN Panic(b)
    ELSE Forward(Fl_Text_Buffer_set_tab_distance(b, as_i32(tab_dist)))

line_text(b, pos) ==
    IF debug_assert_fails(pos) THEN <<"panic">>
    ELSE LET x == Fl_Text_Buffer_line_text(b, as_i32(pos))
         IN  IF x = NULL THEN <<"panic">>
             ELSE <<"String", to_string_lossy(CStr_from_ptr(x[1]))>>

line_start(b, pos) ==
    IF debug_assert_fails(pos) THEN <<"panic">>
    ELSE <<"u32", as_u32(Fl_Text_Buffer_line_start(b, as_i32(pos)))>>

word_start(b, pos) ==
    IF debug_assert_fails(pos) THEN <<"panic">>
    ELSE <<"u32", as_u32(Fl_Text_Buffer_word_start(b, as_i32(pos)))>>

word_end(b, pos) ==
    IF debug_assert_fails(pos) THEN <<"panic">>
    ELSE <<"u32", as_u32(Fl_Text_Buffer_word_end(b, as_i32(pos)))>>

count_lines(b, start, end) ==
    IF debug_assert_fails(start) \/ debug_assert_fails(end) THEN <<"panic">>
    ELSE <<"u32", as_u32(Fl_Text_Buffer_count_lines(b, as_i32(start), as_i32(end)))>>

call_modify_callbacks(b) == Forward(Fl_Text_Buffer_call_modify_callbacks(b))

\* Box::into_raw(Box::new(cb)): a new allocation, at an address no live Box has
Box_into_raw == Len(boxes) + 1

\* the addresses the two nested fn shim items can have: the linker may or
\* may not fold the two identical functions into one
ShimOfAdd == "add_modify_callback::shim"
ShimOfRemove == {"add_modify_callback::shim", "remove_modify_callback::shim"}

\* add_modify_callback that hands the address of the first Box to every
\* registration
add_modify_callback_shares_box(b, cb) ==
    Forward(Fl_Text_Buffer_add_modify_callback(b, ShimOfAdd, 1))

add_modify_callback(b, cb) ==
    Forward(Fl_Text_Buffer_add_modify_callback(b, ShimOfAdd, Box_into_raw))

\* callback is the address of the shim nested in remove_modify_callback,
\* data the address of the Box made here from cb
remove_modify_callback(b, cb, callback) ==
    Forward(Fl_Text_Buffer_remove_modify_callback(b, callback, Box_into_raw))

\* impl Clone: the store of the new TextBuffer
clone(b) ==
    LET temp == Fl_Text_Buffer_new
    IN  copy(temp, b, 0, 0, length(b))


---------------------------------------------------------------------------
(* The program state and the calls a program makes *)

Ptrs == 1..MaxBufs
Handles == 1..MaxHandles
Threads == {"ui", "worker"}
Closures == {"f", "g"}

NoCall == [op |-> "none", h |-> 0, args |-> <<>>, pre |-> <<>>,
           ret |-> <<"unit">>, calls |-> <<>>]
NoPrev == [op |-> "none", h |-> 0, args |-> <<>>, pre |-> <<>>, ret |-> <<"unit">>]

\* the pairs of consecutive calls whose first call is remembered in prev
Tracked ==
    {<<"insert", "remove">>, <<"text_range", "replace">>,
     <<"select", "selection_position">>, <<"unselect", "selection_position">>}

Remember(op) ==
    IF <<last.op, op>> \in Tracked
    THEN [op |-> last.op, h |-> last.h, args |-> last.args, pre |-> last.pre,
          ret |-> last.ret]
    ELSE NoPrev

\* the store behind handle h
B(h) == heap[bufs[h].inner].b

Usable(h) ==
    /\ bufs[h].st = "live" /\ bufs[h].kind = "TextBuffer"
    /\ heap[bufs[h].inner].st = "live"

NoHandle == [st |-> "none", kind |-> "TextBuffer", inner |-> 0, owner |-> "ui"]

\* malloc and the next free slot for a value: the lowest ones not yet used
FreshPtr(p) == heap[p].st = "unalloc" /\ \A q \in Ptrs : heap[q].st = "unalloc" => p <= q
FreshHandle(k) == bufs[k].st = "none" /\ \A j \in Handles : bufs[j].st = "none" => k <= j

\* TextBuffer::default(): one buffer, freshly made, held by the ui thread
Start ==
    /\ heap = [p \in Ptrs |->
                 IF p = 1 THEN [st |-> "live", frees |-> 0, b |-> Fl_Text_Buffer_new]
                 ELSE [st |-> "unalloc", frees |-> 0, b |-> Fl_Text_Buffer_new]]
    /\ bufs = [h \in Handles |->
                 IF h = 1 THEN [st |-> "live", kind |-> "TextBuffer", inner |-> 1, owner |-> "ui"]
                 ELSE NoHandle]
    /\ boxes = <<>>
    /\ registered = <<>>
    /\ last = NoCall
    /\ prev = NoPrev
    /\ inflight = [t \in Threads |-> 0]
    /\ undo_enabled = FALSE

\* a debug build whose calls are kept in full
Full == debug_build = TRUE /\ terse = FALSE

Init == Start /\ Full /\ cap = MaxLen

InitShort == Start /\ Full /\ cap = MaxShort

InitLong == Start /\ Full /\ cap = MaxLong

InitTerse == Start /\ debug_build = TRUE /\ terse = TRUE /\ cap = MaxShort

\* a buffer in a debug or in a release build
InitAnyBuild == Start /\ debug_build \in BOOLEAN /\ terse = FALSE /\ cap = MaxShort

\* let mut b = TextBuffer::default(); b.add_modify_callback(f);
\* b.add_modify_callback(g): one buffer with the two closures registered
InitListening ==
    /\ boxes = <<"f", "g">>
    /\ registered = <<"f", "g">>
    /\ heap = [p \in Ptrs |->
                 IF p = 1
                 THEN [st |-> "live", frees |-> 0,
                       b |-> Fl_Text_Buffer_add_modify_callback(
                                Fl_Text_Buffer_add_modify_callback(
                                    Fl_Text_Buffer_new, ShimOfAdd, 1).b,
                                ShimOfAdd, 2).b]
                 ELSE [st |-> "unalloc", frees |-> 0, b |-> Fl_Text_Buffer_new]]
    /\ bufs = [h \in Handles |->
                 IF h = 1 THEN [st |-> "live", kind |-> "TextBuffer", inner |-> 1, owner |-> "ui"]
                 ELSE NoHandle]
    /\ last = NoCall
    /\ prev = NoPrev
    /\ inflight = [t \in Threads |-> 0]
    /\ undo_enabled = FALSE
    /\ debug_build = TRUE /\ terse = TRUE /\ cap = MaxShort

\* a panic unwinds the program, a crash kills it and after undefined
\* behaviour nothing is known: no call follows
Running == last.ret[1] \notin {"panic", "crash", "ub"}

\* nothing but the buffer the call is made on is touched
Plain == UNCHANGED <<boxes, registered, undo_enabled>>

\* handle h's method op(args) ran with outcome out
Call(h, op, args, out) ==
    /\ Running
    /\ Usable(h)
    /\ Len(out.b.mBuf) <= cap
    /\ heap' = [heap EXCEPT ![bufs[h].inner].b = out.b]
    /\ last' = IF terse
                THEN [NoCall EXCEPT !.op = op, !.h = h, !.ret = out.ret]
                ELSE [op |-> op, h |-> h, args |-> args, pre |-> B(h).mBuf,
                      ret |-> out.ret, calls |-> out.calls]
    /\ prev' = Remember(op)
    /\ UNCHANGED <<bufs, inflight, debug_build, cap, terse>>

\* a method that only reads
Query(h, op, args, value) ==
    Call(h, op, args, [b |-> B(h), calls |-> <<>>, ret |-> value])

Positions(h) == 0..Len(B(h).mBuf)

SetText(h) == \E s \in Strs :
    Call(h, "set_text", <<s>>, set_text(B(h), s)) /\ Plain

Text(h) ==
    Query(h, "text", <<>>, text(B(h))) /\ Plain

AppendText(h) == \E s \in Strs :
    Call(h, "append", <<s>>, append(B(h), s)) /\ Plain

Remove(h) == \E start \in Positions(h) : \E end \in start..Len(B(h).mBuf) :
    Call(h, "remove", <<start, end>>, remove(B(h), start, end))
    /\ Plain

TextRange(h) == \E start \in Positions(h) : \E end \in start..Len(B(h).mBuf) :
    Query(h, "text_range", <<start, end>>, text_range(B(h), start, end))
    /\ Plain

Insert(h) == \E pos \in Positions(h) : \E s \in Strs :
    Call(h, "insert", <<pos, s>>, insert(B(h), pos, s))
    /\ Plain

Replace(h) == \E start \in Positions(h) : \E end \in start..Len(B(h).mBuf) : \E s \in Strs :
    Call(h, "replace", <<start, end, s>>, replace(B(h), start, end, s))
    /\ Plain

\* let t = h.text_range(start, end).unwrap(); h.replace(start, end, &t):
\* the replace that follows the text_range
ReplaceRange(h) ==
    /\ last.op = "text_range" /\ last.h = h /\ last.ret[1] = "Some"
    /\ Call(h, "replace", <<last.args[1], last.args[2], last.ret[2]>>,
            replace(B(h), last.args[1], last.args[2], last.ret[2]))
    /\ Plain

Undo(h) ==
    Call(h, "undo", <<>>, undo(B(h))) /\ Plain

CanUndo(h) == \E flag \in BOOLEAN :
    /\ Call(h, "can_undo", <<flag>>, can_undo(B(h), flag))
    /\ undo_enabled' = flag
    /\ UNCHANGED <<boxes, registered>>

LoadFile(h) == \E path \in Paths :
    Call(h, "load_file", <<path>>, load_file(B(h), path)) /\ Plain

\* h.clone(): a new native store, a new TextBuffer over it; the source is
\* only read
Clone(h) == \E p \in Ptrs : \E k \in Handles :
    /\ Running
    /\ Usable(h)
    /\ FreshPtr(p) /\ FreshHandle(k)
    /\ heap' = [heap EXCEPT ![p] = [st |-> "live", frees |-> 0, b |-> clone(B(h)).b]]
    /\ bufs' = [bufs EXCEPT ![k] = [st |-> "live", kind |-> "TextBuffer", inner |-> p,
                                     owner |-> bufs[h].owner]]
    /\ last' = [op |-> "clone", h |-> h, args |-> <<k>>, pre |-> B(h).mBuf,
                ret |-> clone(B(h)).ret, calls |-> clone(B(h)).calls]
    /\ prev' = Remember("clone")
    /\ UNCHANGED <<boxes, registered, inflight, undo_enabled, debug_build, cap, terse>>

Ranges(h) == {<<start, end>> \in Positions(h) \X Positions(h) : start <= end}

Select(h) == \E r \in Ranges(h) :
    Call(h, "select", r, select(B(h), r[1], r[2])) /\ Plain

Selected(h) ==
    Query(h, "selected", <<>>, <<"bool", selected(B(h))>>) /\ Plain

Unselect(h) ==
    Call(h, "unselect", <<>>, unselect(B(h))) /\ Plain

SelectionPosition(h) == \E r \in selection_position(B(h)) :
    Query(h, "selection_position", <<>>, r) /\ Plain

Highlight(h) == \E r \in Ranges(h) :
    Call(h, "highlight", r, highlight(B(h), r[1], r[2])) /\ Plain

IsHighlighted(h) ==
    Query(h, "is_highlighted", <<>>, <<"bool", is_highlighted(B(h))>>) /\ Plain

Unhighlight(h) ==
    Call(h, "unhighlight", <<>>, unhighlight(B(h))) /\ Plain

HighlightPosition(h) == \E r \in highlight_position(B(h)) :
    Query(h, "highlight_position", <<>>, r) /\ Plain

Boxed == {boxes[i] : i \in 1..Len(boxes)}
Registered == {registered[i] : i \in 1..Len(registered)}

\* a closure is moved into the Box: the program can add it once
AddModifyCallback(h) == \E cb \in Closures \ Boxed :
    /\ Len(boxes) < MaxBoxes
    /\ Call(h, "add_modify_callback", <<cb>>, add_modify_callback(B(h), cb))
    /\ boxes' = Append(boxes, cb)
    /\ registered' = Append(registered, cb)
    /\ UNCHANGED undo_enabled

\* the program asks for the removal of a listener it added
RemoveModifyCallback(h) == \E cb \in Registered : \E callback \in ShimOfRemove :
    /\ Len(boxes) < MaxBoxes
    /\ Call(h, "remove_modify_callback", <<cb>>, remove_modify_callback(B(h), cb, callback))
    /\ boxes' = Append(boxes, cb)
    /\ registered' = SelectSeq(registered, LAMBDA x : x # cb)
    /\ UNCHANGED undo_enabled

CallModifyCallbacks(h) ==
    Call(h, "call_modify_callbacks", <<>>, call_modify_callbacks(B(h))) /\ Plain

---------------------------------------------------------------------------
(* Calls with any u32 for a position or a length *)

\* std::u32::MAX
U32_MAX == 2 * I32_MAX + 1

\* the u32 values a caller passes: the smallest, the first one past
\* std::i32::MAX and the largest
U32s == {0, I32_MAX + 1, U32_MAX}

\* how many arguments of the method are positions or lengths; they come first
Checked(op) ==
    CASE op \in {"insert", "set_tab_distance", "line_text", "line_start",
                 "word_start", "word_end"} -> 1
      [] op \in {"remove", "text_range", "replace", "select", "highlight",
                 "count_lines"} -> 2
      [] op = "copy" -> 3
      [] OTHER -> 0

\* call c was made with a position or length beyond the 31-bit range
Oversized(c) == \E i \in 1..Checked(c.op) : c.args[i] > I32_MAX

\* The caller's contract is broken by such a call: a run is followed up to
\* the first one.
Honoured == ~Oversized(last)

RemoveU32(h) == \E start \in U32s : \E end \in U32s :
    Honoured /\ Call(h, "remove", <<start, end>>, remove(B(h), start, end)) /\ Plain

TextRangeU32(h) == \E start \in U32s : \E end \in U32s :
    Honoured /\ Query(h, "text_range", <<start, end>>, text_range(B(h), start, end)) /\ Plain

InsertU32(h) == \E pos \in U32s : \E s \in Strs :
    Honoured /\ Call(h, "insert", <<pos, s>>, insert(B(h), pos, s)) /\ Plain

ReplaceU32(h) == \E start \in U32s : \E end \in U32s : \E s \in Strs :
    Honoured /\ Call(h, "replace", <<start, end, s>>, replace(B(h), start, end, s)) /\ Plain

\* let mut src = TextBuffer::default(); src.set_text("a");
\* h.copy(&src, start, end, to)
CopyU32(h) == \E start \in U32s : \E end \in U32s : \E to \in U32s :
    /\ Honoured
    /\ Call(h, "copy", <<start, end, to>>,
            copy(B(h), set_text(Fl_Text_Buffer_new, <<"a">>).b, start, end, to))
    /\ Plain

SelectU32(h) == \E start \in U32s : \E end \in U32s :
    Honoured /\ Call(h, "select", <<start, end>>, select(B(h), start, end)) /\ Plain

HighlightU32(h) == \E start \in U32s : \E end \in U32s :
    Honoured /\ Call(h, "highlight", <<start, end>>, highlight(B(h), start, end)) /\ Plain

SetTabDistance(h) == \E tab_dist \in U32s :
    Honoured /\ Call(h, "set_tab_distance", <<tab_dist>>, set_tab_distance(B(h), tab_dist))
    /\ Plain

LineText(h) == \E pos \in U32s :
    Honoured /\ Query(h, "line_text", <<pos>>, line_text(B(h), pos)) /\ Plain

LineStartOf(h) == \E pos \in U32s :
    Honoured /\ Query(h, "line_start", <<pos>>, line_start(B(h), pos)) /\ Plain

WordStart(h) == \E pos \in U32s :
    Honoured /\ Query(h, "word_start", <<pos>>, word_start(B(h), pos)) /\ Plain

WordEnd(h) == \E pos \in U32s :
    Honoured /\ Query(h, "word_end", <<pos>>, word_end(B(h), pos)) /\ Plain

CountLines(h) == \E start \in U32s : \E end \in U32s :
    Honoured /\ Query(h, "count_lines", <<start, end>>, count_lines(B(h), start, end)) /\ Plain

\* Arguments: every method that takes positions is called with any u32
NextU32 ==
    \/ RemoveU32(1) \/ TextRangeU32(1) \/ InsertU32(1) \/ ReplaceU32(1) \/ CopyU32(1)
    \/ SelectU32(1) \/ HighlightU32(1) \/ SetTabDistance(1)
    \/ LineText(1) \/ LineStartOf(1) \/ WordStart(1) \/ WordEnd(1) \/ CountLines(1)

SpecU32 == InitAnyBuild /\ [][NextU32]_vars

---------------------------------------------------------------------------
(* The runs of a program *)

\* Editing: the content of one buffer is set, changed, read and loaded
Next ==
    \/ SetText(1) \/ AppendText(1) \/ Insert(1) \/ Remove(1) \/ Replace(1)
    \/ TextRange(1) \/ Text(1)

Spec == Init /\ [][Next]_vars

\* Undo: undo is switched on and off and asked for between changes
NextUndo ==
    \/ SetText(1) \/ Insert(1) \/ Remove(1) \/ Replace(1)
    \/ CanUndo(1) \/ Undo(1)

SpecUndo == Init /\ [][NextUndo]_vars

\* Cloning: a buffer is edited and cloned, and the buffers are read
NextClone ==
    \/ SetText(1) \/ AppendText(1) \/ Insert(1) \/ Remove(1)
    \/ Clone(1)
    \/ \E h \in Handles : Text(h)

SpecClone == Init /\ [][NextClone]_vars


\* Ranges: the selection of one buffer is set, cleared and asked for while
\* the content changes
NextSel ==
    \/ Insert(1) \/ Remove(1)
    \/ Select(1) \/ Unselect(1) \/ Selected(1) \/ SelectionPosition(1)

SpecSel == InitShort /\ [][NextSel]_vars

\* Loading: files are loaded into a buffer with a selection and a highlight
NextLoad ==
    \/ LoadFile(1)
    \/ Select(1) \/ Unselect(1) \/ Highlight(1) \/ Unhighlight(1)
    \/ Text(1)

SpecLoad == Init /\ [][NextLoad]_vars

\* Listeners: closures are added and removed while the content changes
NextNotify ==
    \/ AddModifyCallback(1) \/ RemoveModifyCallback(1) \/ CallModifyCallbacks(1)
    \/ AppendText(1) \/ Insert(1) \/ Remove(1)

SpecNotify == InitShort /\ [][NextNotify]_vars

\* Marking: selection and highlight are set, cleared and asked for
NextMark ==
    \/ SetText(1) \/ Insert(1)
    \/ Select(1) \/ Unselect(1) \/ Highlight(1) \/ Unhighlight(1)
    \/ Selected(1) \/ IsHighlighted(1)

SpecMark == InitShort /\ [][NextMark]_vars

\* Shifting: the content changes under a selection and a highlight
NextShift ==
    \/ SetText(1) \/ AppendText(1) \/ Insert(1) \/ Remove(1) \/ Replace(1)
    \/ Select(1) \/ Unselect(1) \/ Highlight(1) \/ Unhighlight(1)

SpecShift == InitTerse /\ [][NextShift]_vars

\* Replacing: ranges of the content are replaced under a selection and a
\* highlight, with two listeners registered
NextReplace ==
    \/ Select(1) \/ Highlight(1)
    \/ Replace(1)

SpecReplace == InitListening /\ [][NextReplace]_vars

\* Notifying: closures are added and removed and every kind of change is made
NextOrder ==
    \/ AddModifyCallback(1) \/ RemoveModifyCallback(1) \/ CallModifyCallbacks(1)
    \/ SetText(1) \/ AppendText(1) \/ Insert(1) \/ Remove(1) \/ Replace(1)

SpecOrder == InitShort /\ [][NextOrder]_vars

\* Reading back: a range of the content is read and written back in place
NextRange ==
    \/ SetText(1) \/ AppendText(1) \/ Remove(1)
    \/ TextRange(1) \/ ReplaceRange(1) \/ Text(1)

SpecRange == InitLong /\ [][NextRange]_vars


---------------------------------------------------------------------------
(* The life of the native stores *)

\* the native destructor: the store is released (once more)
Fl_Text_Buffer_delete(e) == [e EXCEPT !.st = "freed", !.frees = e.frees + 1]

\* unsafe fn delete: e is the heap entry self._inner points to
delete(e) == Fl_Text_Buffer_delete(e)

\* impl Drop for TextBuffer is commented out: a value that goes out of
\* scope leaves the heap entry as it is
drop(e) == e

\* unsafe impl Send for TextBuffer {}
TextBuffer_is_Send == TRUE

Ran(op, h, args, ret) ==
    /\ last' = [op |-> op, h |-> h, args |-> args,
                pre |-> IF heap[bufs[h].inner].st = "live" THEN B(h).mBuf ELSE <<>>,
                ret |-> ret, calls |-> <<>>]
    /\ prev' = Remember(op)

\* TextBuffer::default() on thread t
Default(t) == \E p \in Ptrs : \E k \in Handles :
    /\ Running /\ inflight[t] = 0
    /\ FreshPtr(p) /\ FreshHandle(k)
    /\ heap' = [heap EXCEPT ![p] = [st |-> "live", frees |-> 0, b |-> Fl_Text_Buffer_new]]
    /\ bufs' = [bufs EXCEPT ![k] = [st |-> "live", kind |-> "TextBuffer", inner |-> p,
                                     owner |-> t]]
    /\ last' = [op |-> "default", h |-> k, args |-> <<>>, pre |-> <<>>,
                ret |-> <<"unit">>, calls |-> <<>>]
    /\ prev' = Remember("default")
    /\ UNCHANGED <<boxes, registered, inflight, undo_enabled, debug_build, cap, terse>>

Alive(h) == bufs[h].st = "live" /\ bufs[h].kind = "TextBuffer"

\* unsafe { TextBuffer::from_ptr(h.as_ptr()) }: a second value over the same store
FromPtr(h) == \E k \in Handles :
    /\ Running /\ Alive(h) /\ FreshHandle(k)
    /\ bufs' = [bufs EXCEPT ![k] = [bufs[h] EXCEPT !.st = "live"]]
    /\ Ran("from_ptr", h, <<k>>, <<"unit">>)
    /\ UNCHANGED <<heap, boxes, registered, inflight, undo_enabled, debug_build, cap, terse>>

\* unsafe { h.delete() }: releasing a store a second time is undefined behaviour
Delete(h) ==
    /\ Running /\ Alive(h)
    /\ heap' = [heap EXCEPT ![bufs[h].inner] = delete(heap[bufs[h].inner])]
    /\ Ran("delete", h, <<>>,
           IF heap[bufs[h].inner].st = "freed" THEN <<"ub", "double free">> ELSE <<"unit">>)
    /\ UNCHANGED <<bufs, boxes, registered, inflight, undo_enabled, debug_build, cap, terse>>

\* the value h goes out of scope
Drop(h) ==
    /\ Running /\ Alive(h)
    /\ \A t \in Threads : inflight[t] # h
    /\ bufs' = [bufs EXCEPT ![h].st = "dropped"]
    /\ heap' = [heap EXCEPT ![bufs[h].inner] = drop(heap[bufs[h].inner])]
    /\ Ran("drop", h, <<>>, <<"unit">>)
    /\ UNCHANGED <<boxes, registered, inflight, undo_enabled, debug_build, cap, terse>>

\* h.length(): the native function reads the store, released or not
Length(h) ==
    /\ Running /\ Alive(h)
    /\ Ran("length", h, <<>>,
           IF heap[bufs[h].inner].st = "freed" THEN <<"ub", "use after free">>
           ELSE <<"u32", length(B(h))>>)
    /\ UNCHANGED <<heap, bufs, boxes, registered, inflight, undo_enabled, debug_build, cap, terse>>

\* Lifetimes: buffers are made, cloned, aliased, released and dropped
NextLife ==
    \/ Default("ui")
    \/ \E h \in Handles : Clone(h)
    \/ \E h \in Handles : FromPtr(h)
    \/ \E h \in Handles : Delete(h)
    \/ \E h \in Handles : Drop(h)
    \/ \E h \in Handles : Length(h)

SpecLife == Init /\ [][NextLife]_vars

---------------------------------------------------------------------------
(* Threads.  A call into the native library is not atomic: a thread is     *)
(* inside the call from Begin to End.                                      *)

\* TextEditor::new(x, y, w, h, buf): the editor keeps a pointer to buf's store
NewEditor(h) == \E k \in Handles :
    /\ Running /\ Usable(h) /\ FreshHandle(k)
    /\ inflight[bufs[h].owner] = 0
    /\ bufs' = [bufs EXCEPT ![k] = [bufs[h] EXCEPT !.kind = "TextEditor"]]
    /\ Ran("TextEditor::new", h, <<k>>, <<"unit">>)
    /\ UNCHANGED <<heap, boxes, registered, inflight, undo_enabled, debug_build, cap, terse>>

\* the TextBuffer h is moved to thread t, as Send lets it
SendTo(h, t) ==
    /\ TextBuffer_is_Send
    /\ Running /\ Usable(h)
    /\ bufs[h].owner # t /\ inflight[bufs[h].owner] = 0
    /\ bufs' = [bufs EXCEPT ![h].owner = t]
    /\ Ran("send", h, <<t>>, <<"unit">>)
    /\ UNCHANGED <<heap, boxes, registered, inflight, undo_enabled, debug_build, cap, terse>>

InFlight == {t \in Threads : inflight[t] # 0}

\* the thread that owns h enters a call that changes the store of h:
\* h.append("a") on a TextBuffer, h.paste() on a TextEditor
Begin(h) ==
    /\ Running
    /\ bufs[h].st = "live" /\ heap[bufs[h].inner].st = "live"
    /\ inflight[bufs[h].owner] = 0
    /\ Len(B(h).mBuf) + Cardinality(InFlight) < cap
    /\ inflight' = [inflight EXCEPT ![bufs[h].owner] = h]
    /\ Ran(IF bufs[h].kind = "TextEditor" THEN "paste" ELSE "append", h, <<"begin">>, <<"unit">>)
    /\ UNCHANGED <<heap, bufs, boxes, registered, undo_enabled, debug_build, cap, terse>>

\* the call of thread t returns
End(t) ==
    /\ inflight[t] # 0
    /\ heap' = [heap EXCEPT ![bufs[inflight[t]].inner].b = append(@, <<"a">>).b]
    /\ inflight' = [inflight EXCEPT ![t] = 0]
    /\ Ran(IF bufs[inflight[t]].kind = "TextEditor" THEN "paste" ELSE "append",
           inflight[t], <<"end">>, <<"unit">>)
    /\ UNCHANGED <<bufs, boxes, registered, undo_enabled, debug_build, cap, terse>>

NextThreads ==
    \/ \E t \in Threads : Default(t)
    \/ \E h \in Handles : NewEditor(h)
    \/ \E h \in Handles : \E t \in Threads : SendTo(h, t)
    \/ \E h \in Handles : Begin(h)
    \/ \E t \in Threads : End(t)
    \/ \E h \in Handles : Drop(h)

SpecThreads == Init /\ [][NextThreads]_vars


---------------------------------------------------------------------------
(* Properties *)

\* how often closure c was called during the last call
CallsTo(c) == Cardinality({i \in 1..Len(last.calls) : last.calls[i].closure = c})

\* the last call changed the content or asked for the listeners to be called
Notifies ==
    /\ last.op \in {"set_text", "append", "insert", "remove", "replace",
                    "call_modify_callbacks"}
    /\ last.ret[1] = "unit"

IsResourceNotFound(ret) ==
    ret[1] = "Err" /\ ret[2] = "Internal" /\ ret[3] = "ResourceNotFound"

\* C1: clone() returns a buffer over a store of its own whose text equals
\* the text of the source, and leaves the source as it was.
C1_CloneHasSourceContent ==
    (last.op = "clone" /\ last.ret[1] = "unit") =>
        /\ bufs[last.args[1]].inner # bufs[last.h].inner
        /\ text(B(last.args[1])) = text(B(last.h))
        /\ B(last.h).mBuf = last.pre

\* C2: selection_position() right after select(start, end), start <= end <=
\* length, returns Some((start, end)); right after unselect() it returns None.
C2_SelectionPositionAfterSelect ==
    /\ (last.op = "selection_position" /\ prev.op = "select" /\ prev.ret[1] = "unit") =>
          (last.ret[1] = "Some" /\ last.ret[2] = prev.args[1] /\ last.ret[3] = prev.args[2])
    /\ (last.op = "selection_position" /\ prev.op = "unselect") =>
          last.ret[1] = "None"

\* C3: a closure the program added is called on every change until the
\* program removes it, and a closure the program removed is not called by
\* any later change or call_modify_callbacks().
C3_ListenerCalledUntilRemoved ==
    \A c \in Closures :
        /\ (c \in Registered /\ Notifies) => CallsTo(c) >= 1
        /\ c \notin Registered => CallsTo(c) = 0

\* undo is off, or no change is recorded that undo could take back
UndoUnavailable == ~undo_enabled \/ B(1).mUndo = <<>>

\* C4, as claimed: undo() with undo off or with nothing to undo fails with
\* the error UndoError and leaves the content as it was.
C4_UndoFailsWithUndoError ==
    [][(last'.op = "undo" /\ UndoUnavailable) =>
          /\ last'.ret[1] = "Err" /\ last'.ret[2] = "UndoError"
          /\ heap'[1].b.mBuf = heap[1].b.mBuf]_vars

\* C4, amended: undo() with undo off or with nothing to undo fails with
\* the error Unknown("Failed to undo") and leaves the content as it was.
C4_UndoFailsWithUnknown ==
    [][(last'.op = "undo" /\ UndoUnavailable) =>
          /\ last'.ret = <<"Err", "Unknown", "Failed to undo">>
          /\ heap'[1].b.mBuf = heap[1].b.mBuf]_vars

\* undo() has failed on a buffer that is not empty
C4_Witness ==
    last.op = "undo" /\ last.ret[1] = "Err" /\ B(1).mBuf # <<>>

\* C5: with undo on, undo() right after set_text, insert, remove or replace
\* succeeds and the content is again what it was before that call.
C5_UndoRestoresContent ==
    [][(/\ last'.op = "undo" /\ undo_enabled
        /\ last.op \in {"set_text", "insert", "remove", "replace"}
        /\ last.ret[1] = "unit") =>
          /\ last'.ret[1] = "Ok"
          /\ heap'[1].b.mBuf = last.pre]_vars

\* undo() has succeeded and has changed the content
C5_Witness ==
    last.op = "undo" /\ last.ret[1] = "Ok" /\ B(1).mBuf # last.pre

\* C6: load_file of a path that does not exist is Err(ResourceNotFound) and
\* leaves content, selection and highlight as they were; a load the native
\* loader fails is Err(ResourceNotFound) too; a load it completes is Ok.
C6_LoadFileResults ==
    [][last'.op = "load_file" =>
          LET path == last'.args[1]
              loads == path_exists(path) /\ path_to_str_is_some(path)
              n == Fl_Text_Buffer_loadfile(heap[1].b, path, 0)
          IN  /\ ~path_exists(path) => (IsResourceNotFound(last'.ret) /\ heap' = heap)
              /\ (loads /\ n.ret = 0) => IsResourceNotFound(last'.ret)
              /\ (loads /\ n.ret # 0) => last'.ret[1] = "Ok"]_vars

\* a load of a missing path has been refused on a buffer with content, a
\* selection and a highlight
C6_Witness ==
    /\ last.op = "load_file" /\ last.args[1] = "missing"
    /\ B(1).mBuf # <<>> /\ B(1).mPrimary.mSelected /\ B(1).mHighlight.mSelected

\* the live TextBuffer values over store p
Holders(p) ==
    {h \in Handles : bufs[h].st = "live" /\ bufs[h].kind = "TextBuffer" /\ bufs[h].inner = p}

\* C7: every native store is released exactly once: not twice, not used
\* after its release, and released once no TextBuffer holds it any more.
C7_StoreReleasedExactlyOnce ==
    \A p \in Ptrs : heap[p].st # "unalloc" =>
        /\ heap[p].frees <= 1
        /\ last.ret[1] # "ub"
        /\ Holders(p) = {} => heap[p].frees = 1

\* C8: no two threads are inside calls that change the same native buffer.
C8_NoInterleavedMutation ==
    \A t1 \in Threads : \A t2 \in Threads :
        (t1 # t2 /\ inflight[t1] # 0 /\ inflight[t2] # 0) =>
            bufs[inflight[t1]].inner # bufs[inflight[t2]].inner

\* an append of a one-character string has returned with one listener registered
OneCharAppend ==
    /\ last.op = "append" /\ last.ret[1] = "unit"
    /\ chars_count(last.args[1]) = 1
    /\ Len(registered) = 1

\* C9, as claimed: with one listener registered, append of a one-character
\* string calls it exactly once, with inserted = 1, deleted = 0 and the
\* previous length as position; every registered listener is called once
\* by each change.
C9_OneCharAppendInsertsOne ==
    /\ OneCharAppend =>
          /\ CallsTo(registered[1]) = 1
          /\ \A i \in 1..Len(last.calls) : last.calls[i].closure = registered[1] =>
                /\ last.calls[i].inserted = 1
                /\ last.calls[i].deleted = 0
                /\ last.calls[i].pos = Len(last.pre)
    /\ Notifies => \A c \in Registered : CallsTo(c) = 1

\* C9, amended: with one listener registered, append of a one-character
\* string calls it exactly once, with inserted = the length of the string
\* in bytes (1 for an ASCII character), deleted = 0 and the previous length
\* as position; every registered listener is called once by each change.
C9_OneCharAppendInsertsItsBytes ==
    /\ OneCharAppend =>
          /\ CallsTo(registered[1]) = 1
          /\ \A i \in 1..Len(last.calls) : last.calls[i].closure = registered[1] =>
                /\ last.calls[i].inserted = Len(last.args[1])
                /\ last.calls[i].deleted = 0
                /\ last.calls[i].pos = Len(last.pre)
    /\ Notifies => \A c \in Registered : CallsTo(c) = 1

\* a two-byte character has been appended while one listener was
\* registered, and the listener was called
C9_Witness ==
    OneCharAppend /\ Len(last.args[1]) = 2 /\ CallsTo(registered[1]) = 1

\* remove(pos, pos + len(s)) has returned right after insert(pos, s)
InsertThenRemove ==
    /\ last.op = "remove" /\ last.ret[1] = "unit"
    /\ prev.op = "insert" /\ prev.ret[1] = "unit"
    /\ last.args = <<prev.args[1], prev.args[1] + Len(prev.args[2])>>

\* C10: insert(pos, s), 0 <= pos <= length, followed by
\* remove(pos, pos + len(s)) gives back the content from before the insert.
C10_InsertThenRemoveRestores ==
    InsertThenRemove => (B(1).mBuf = prev.pre /\ text(B(1))[2] = to_string_lossy(prev.pre))

\* a string that is not empty was put in behind the start of a buffer with
\* content and taken out again
C10_Witness ==
    InsertThenRemove /\ Len(prev.args[2]) > 0 /\ prev.args[1] > 0 /\ prev.pre # <<>>

\* replace(start, end, t) has returned right after t = text_range(start, end)
RangeWrittenBack ==
    /\ last.op = "replace" /\ last.ret[1] = "unit"
    /\ prev.op = "text_range" /\ prev.ret[1] = "Some"
    /\ last.args = <<prev.args[1], prev.args[2], prev.ret[2]>>

\* C11: for start <= end <= length, t = text_range(start, end) followed by
\* replace(start, end, t) leaves the content as it was.
C11_TextRangeThenReplaceIsNoOp ==
    RangeWrittenBack => B(1).mBuf = prev.pre

\* C12: select and unselect change neither the highlight range nor
\* is_highlighted(); highlight and unhighlight change neither the selection
\* range, nor selected(), nor the content.
C12_HighlightIndependentOfSelection ==
    [][/\ last'.op \in {"select", "unselect"} =>
            /\ heap'[1].b.mHighlight = heap[1].b.mHighlight
            /\ is_highlighted(heap'[1].b) = is_highlighted(heap[1].b)
       /\ last'.op \in {"highlight", "unhighlight"} =>
            /\ heap'[1].b.mPrimary = heap[1].b.mPrimary
            /\ selected(heap'[1].b) = selected(heap[1].b)
            /\ heap'[1].b.mBuf = heap[1].b.mBuf]_vars

\* a highlight has been set on content that has a selection over another range
C12_Witness ==
    /\ last.op = "highlight" /\ last.ret[1] = "unit"
    /\ B(1).mBuf # <<>>
    /\ selected(B(1)) /\ is_highlighted(B(1))
    /\ B(1).mPrimary # B(1).mHighlight

InRange(r, len) == 0 <= r.mStart /\ r.mStart <= r.mEnd /\ r.mEnd <= len

\* C14: in every reachable state, after any sequence of set_text, append,
\* insert, remove, replace, select, highlight, unselect and unhighlight,
\* the selection range and the highlight range satisfy
\* 0 <= start <= end <= length(content).
C14_RangesWithinContent ==
    /\ InRange(B(1).mPrimary, length(B(1)))
    /\ InRange(B(1).mHighlight, length(B(1)))


\* a remove has shortened content that has a selection and a highlight, and
\* the selection still ends where the content ends
C14_Witness ==
    /\ last.op = "remove" /\ last.ret[1] = "unit"
    /\ selected(B(1)) /\ is_highlighted(B(1))
    /\ B(1).mPrimary.mEnd = length(B(1))
    /\ B(1).mHighlight.mStart > 0


\* the outcome of remove(start, end) followed by insert(start, txt) on b:
\* the store after both and the closure calls of both
remove_then_insert(b, start, end, txt) ==
    LET r == remove(b, start, end)
        i == insert(r.b, start, txt)
    IN  [b |-> i.b, calls |-> r.calls \o i.calls]

\* how often closure c is called in the sequence of closure calls
CallsIn(calls, c) == Len(SelectSeq(calls, LAMBDA x : x.closure = c))

\* C13: in every state, for every range and string, replace(start, end, s)
\* leaves the content, the selection and the highlight that
\* remove(start, end) followed by insert(start, s) leaves, and calls each
\* registered listener once, with deleted = end - start and inserted =
\* len(s), where the two calls call it twice.
C13_ReplaceIsRemoveThenInsert ==
    \A r \in Ranges(1) : \A txt \in Strs :
        \A one \in {replace(B(1), r[1], r[2], txt)} :
        \A two \in {remove_then_insert(B(1), r[1], r[2], txt)} :
            one.ret[1] = "unit" =>
              /\ one.b.mBuf = two.b.mBuf
              /\ one.b.mPrimary = two.b.mPrimary
              /\ one.b.mHighlight = two.b.mHighlight
              /\ \A c \in Registered :
                    CallsIn(one.calls, c) = 1 /\ CallsIn(two.calls, c) = 2
              /\ \A i \in 1..Len(one.calls) :
                    /\ one.calls[i].pos = r[1]
                    /\ one.calls[i].deleted = r[2] - r[1]
                    /\ one.calls[i].inserted = Len(txt)

\* a replace has been made on content with a selection and a highlight
\* that do not start at 0, with two listeners registered
C13_Witness ==
    /\ last.op = "replace" /\ last.ret[1] = "unit"
    /\ Len(registered) = 2 /\ Len(B(1).mProcs) = 2
    /\ selected(B(1)) /\ is_highlighted(B(1))
    /\ B(1).mPrimary.mStart > 0 /\ B(1).mHighlight.mStart > 0


\* no negative position or length has reached the native store
NothingNegativeStored ==
    /\ B(1).mTabDist >= 0
    /\ B(1).mPrimary.mStart >= 0 /\ B(1).mHighlight.mStart >= 0

\* C15, as claimed: a call of remove, text_range, insert, replace, copy,
\* select, highlight, set_tab_distance, line_text, line_start, word_start,
\* word_end or count_lines with an argument beyond 2^31 - 1 does not return
\* (it panics) and leaves the content alone, and no wrapped negative value
\* reaches the toolkit.
C15_OversizedArgumentFailsFast ==
    /\ Oversized(last) => (last.ret[1] = "panic" /\ B(1).mBuf = last.pre)
    /\ NothingNegativeStored

\* C15, amended: in a build with debug assertions compiled in, such a call
\* does not return (it panics) and leaves the content alone, and no wrapped
\* negative value reaches the toolkit.
C15_OversizedArgumentFailsFastInDebug ==
    debug_build =>
        /\ Oversized(last) => (last.ret[1] = "panic" /\ B(1).mBuf = last.pre)
        /\ NothingNegativeStored

\* in a debug build a select whose end is beyond 2^31 - 1 has panicked on a
\* buffer with content
C15_Witness ==
    /\ debug_build
    /\ last.op = "select" /\ last.args[1] <= I32_MAX /\ last.args[2] > I32_MAX
    /\ last.ret[1] = "panic"
    /\ B(1).mBuf # <<>>


\* the closures called during the last call, in the order of the calls
Called == [i \in 1..Len(last.calls) |-> last.calls[i].closure]

\* C16: when set_text, append, insert, remove, replace or
\* call_modify_callbacks() returns, every registered listener has been
\* called during the call, in the order of registration.
C16_ListenersCalledInRegistrationOrder ==
    Notifies => SelectSeq(Called, LAMBDA c : c \in Registered) = registered

\* a replace has returned after calling g and then f, registered in that order
C16_Witness ==
    /\ last.op = "replace" /\ last.ret[1] = "unit"
    /\ registered = <<"g", "f">>
    /\ Called = <<"g", "f">>
    /\ B(1).mBuf # last.pre

============================================================================
